---- MODULE Spec2Model ----
(***************************************************************************)
(* State-machine model of RagService (src/src/rag/rag.service.ts): the     *)
(* lazy ingestion pipeline (loadDocuments, splitDocuments,                 *)
(* vectorizeDocuments), the retrieval/generation chain of chatWithHistory  *)
(* and the process-wide chat history with resetChatHistory.                *)
(*                                                                         *)
(* Node.js runs one callback at a time: a request runs atomically from one *)
(* `await` on an external call to the next, and several requests           *)
(* interleave only at those suspension points.  Each action below is one   *)
(* such run-to-next-await segment.                                         *)
(***************************************************************************)
EXTENDS Integers, Sequences, FiniteSets, TLC

(* ------------------------------ bounds --------------------------------- *)
\* number of chatWithHistory requests a behaviour may start
NumReqs == 2
\* number of resetChatHistory calls a behaviour may make
MaxResets == 1
\* longest passage list given to the context formatter in SpecContext
MaxDocs == 3
\* pages of the large corpus (more than one batch of BatchSize chunks)
BigPages == 101

(* ------------------------- program constants --------------------------- *)
\* for (let i = 0; i < docs.length; i += 100)
BatchSize == 100
\* store.asRetriever({ k: 6 })
TopK == 6
\* .filter(t => t.length > 30)
MinContextLen == 30

Reqs == 1..NumReqs
Questions == {"q1", "q2"}
Answers == {"a1", "a2"}
QNum(q) == IF q = "q1" THEN 0 ELSE 1

(* ------------------------------ texts ---------------------------------- *)
\* A text is a sequence of characters; only blanks and one letter are needed.
X(n) == [i \in 1..n |-> "x"]
Sp(n) == [i \in 1..n |-> " "]
IsSpace(c) == c \in {" ", "\n", "\t"}

\* String.prototype.trim
Trim(s) ==
  LET keep == {i \in 1..Len(s) : ~IsSpace(s[i])}
  IN IF keep = {} THEN <<>>
     ELSE LET lo == CHOOSE i \in keep : \A j \in keep : i <= j
              hi == CHOOSE i \in keep : \A j \in keep : i >= j
          IN SubSeq(s, lo, hi)

\* Array.prototype.join
RECURSIVE Join(_, _)
Join(parts, sep) ==
  IF Len(parts) = 0 THEN <<>>
  ELSE IF Len(parts) = 1 THEN parts[1]
  ELSE parts[1] \o sep \o Join(Tail(parts), sep)

BlankLine == <<"\n", "\n">>

\* variant: the limit itself passes the filter
LongEnough_atLeast(t) == Len(t) >= MinContextLen

LongEnough(t) == Len(t) > MinContextLen

\* docs.map(d => d.pageContent.trim()).filter(t => t.length > 30)
ContextParts(ds) ==
  SelectSeq([i \in 1..Len(ds) |-> Trim(ds[i].pageContent)], LongEnough)

\* ... .join("\n\n")
FormatContext(ds) == Join(ContextParts(ds), BlankLine)

(* --------------------------- documents --------------------------------- *)
\* Metadata values: a missing field, a JavaScript Date object, or a string.
Undef == [kind |-> "undefined", v |-> ""]
DateObj(t) == [kind |-> "Date", v |-> t]
Str(s) == [kind |-> "string", v |-> s]

\* Date.prototype.toISOString
toISOString(d) ==
  Str(IF d.v = "t0" THEN "1970-01-01T00:00:00.000Z" ELSE "2024-01-15T10:30:00.000Z")

\* new Document({ pageContent, metadata })
Doc(text, loc, date, created) ==
  [pageContent |-> text,
   metadata |-> [loc |-> loc, date |-> date, created |-> created]]

\* The documents folder: no PDF, a short PDF, a PDF of BigPages pages, or one
\* of BatchSize pages.
EmptyCorpus == <<>>
SmallCorpus ==
  << Doc(X(31), 1, DateObj("t0"), Undef),
     Doc(Sp(1) \o X(30) \o Sp(1), 2, Str("2020"), DateObj("t1")),
     Doc(Sp(2), 3, Undef, Undef),
     Doc(X(32), 4, Undef, Undef) >>
BigCorpus ==
  [n \in 1..BigPages |->
     Doc(IF n <= 2 THEN X(30 + n) ELSE X(1), n,
         IF n = BigPages THEN DateObj("t0") ELSE Undef, Undef)]

\* A folder whose chunks fill one batch exactly.
FullCorpus == [n \in 1..BatchSize |-> Doc(X(1), n, Undef, Undef)]

\* Records left in the index by an earlier run of the service.
PriorIndex ==
  << Doc(Sp(2) \o X(31) \o Sp(1), 1, Str("2020"), Undef),
     Doc(X(30), 2, Undef, Undef),
     Doc(X(33), 3, Undef, Undef) >>

\* RecursiveCharacterTextSplitter on pages no longer than chunkSize: one chunk
\* per page, its text trimmed, pages without text giving no chunk.
splitDocuments(rawDocs) ==
  LET trimmed == [n \in 1..Len(rawDocs) |->
                    [rawDocs[n] EXCEPT !.pageContent = Trim(rawDocs[n].pageContent)]]
      HasText(d) == Len(d.pageContent) > 0
  IN SelectSeq(trimmed, HasText)

\* if (doc.metadata?.date instanceof Date) doc.metadata.date = ...toISOString()
SanitizeDoc(doc) ==
  IF doc.metadata.date.kind = "Date"
  THEN [doc EXCEPT !.metadata.date = toISOString(doc.metadata.date)]
  ELSE doc

Min(a, b) == IF a < b THEN a ELSE b

\* variant: a slice that stops one document early
BatchEnd_short(ds, i) == Min(i + BatchSize - 1, Len(ds))

\* docs.slice(i, i + 100) is positions i+1 .. min(i+100, length), 1-based
BatchEnd(ds, i) == Min(i + BatchSize, Len(ds))

\* batch.map(doc => { ...; return doc }) mutates the documents of the batch
SanitizeBatch(ds, i) ==
  [n \in 1..Len(ds) |->
     IF n > i /\ n <= BatchEnd(ds, i) THEN SanitizeDoc(ds[n]) ELSE ds[n]]

\* the retriever: the k records nearest to the question; the ranking is the
\* embedding model's, here a window of the index chosen by the question
QueryTopK(idx, q) ==
  LET m == Min(TopK, Len(idx))
      first == IF QNum(q) = 0 THEN 1 ELSE Len(idx) - m + 1
  IN SubSeq(idx, first, first + m - 1)

(* ---------------------------- messages --------------------------------- *)
HumanMessage(q) == [role |-> "human", content |-> q, context |-> <<>>]
AIMessage(a) == [role |-> "ai", content |-> a, context |-> <<>>]
SystemMessage(ctx) == [role |-> "system", content |-> "directive", context |-> ctx]

\* variant: the question is placed before the history
FormatPrompt_questionFirst(ctx, history, q) ==
  <<SystemMessage(ctx), HumanMessage(q)>> \o history

\* ChatPromptTemplate.fromMessages([system, MessagesPlaceholder, human])
FormatPrompt(ctx, history, q) ==
  <<SystemMessage(ctx)>> \o history \o <<HumanMessage(q)>>

\* variant: the two pushes in the opposite order
PushPair_answerFirst(history, q, a) ==
  Append(Append(history, AIMessage(a)), HumanMessage(q))

\* this.chatHistory.push(new HumanMessage(question)); push(new AIMessage(answer))
PushPair(history, q, a) == Append(Append(history, HumanMessage(q)), AIMessage(a))

(* ------------------------------ state ---------------------------------- *)
VARIABLES
  corpus,         \* pages of the PDFs in the documents folder (read-only)
  index,          \* records of the Pinecone index, in upsert order
  heap,           \* the arrays created for this.chatHistory, by identity
  chatHistory,    \* this.chatHistory: the identity of the current array
  pc,             \* per request: the await it is suspended at
  question,       \* per request: the argument of chatWithHistory
  stats,          \* per request: totalRecordCount read at line 152 (-1: not yet)
  rawDocs,        \* per request: result of loadDocuments
  chunks,         \* per request: result of splitDocuments (mutated by the sanitizer)
  i,              \* per request: loop variable of vectorizeDocuments
  vecStatus,      \* per request: value returned by vectorizeDocuments
  histRef,        \* per request: the array passed as chat_history to invoke
  docs,           \* per request: documents returned by the retriever
  context,        \* per request: the {context} string
  prompt,         \* per request: messages sent to the language model
  answer,         \* per request: the parsed model output
  err,            \* per request: the call whose rejection ended the request
  trace,          \* per request: external calls issued so far, in order
  vecEntryCount,  \* per request: index size when vectorizeDocuments was entered
  startGen,       \* per request: resetChatHistory calls before it started
  snapLen,        \* per request: length of the history array when it was passed to invoke
  upserts,        \* every PineconeStore.fromDocuments call that wrote, in order
  returned,       \* per history array: the requests that returned into it, in order
  nResets,        \* resetChatHistory calls so far
  nextAfterReset, \* first request started since the last reset (0: none)
  passages,       \* SpecContext: the list given to the context formatter
  ctxOut          \* SpecContext: its result

reqVars == <<pc, question, stats, rawDocs, chunks, i, vecStatus, histRef, docs,
             context, prompt, answer, err, trace, vecEntryCount, startGen,
             snapLen>>
vars == <<corpus, index, heap, chatHistory, reqVars, upserts, returned,
          nResets, nextAfterReset, passages, ctxOut>>

NoCtx == <<"none">>

InitRequests ==
  /\ pc = [p \in Reqs |-> "idle"]
  /\ question = [p \in Reqs |-> "none"]
  /\ stats = [p \in Reqs |-> -1]
  /\ rawDocs = [p \in Reqs |-> <<>>]
  /\ chunks = [p \in Reqs |-> <<>>]
  /\ i = [p \in Reqs |-> 0]
  /\ vecStatus = [p \in Reqs |-> "none"]
  /\ histRef = [p \in Reqs |-> -1]
  /\ docs = [p \in Reqs |-> <<>>]
  /\ context = [p \in Reqs |-> <<>>]
  /\ prompt = [p \in Reqs |-> <<>>]
  /\ answer = [p \in Reqs |-> "none"]
  /\ err = [p \in Reqs |-> "none"]
  /\ trace = [p \in Reqs |-> <<>>]
  /\ vecEntryCount = [p \in Reqs |-> -1]
  /\ startGen = [p \in Reqs |-> -1]
  /\ snapLen = [p \in Reqs |-> -1]

\* private chatHistory: BaseMessage[] = [];  the index is empty or was
\* populated by an earlier run of the service.
Init ==
  /\ corpus \in {EmptyCorpus, SmallCorpus, BigCorpus, FullCorpus}
  /\ index \in IF corpus = SmallCorpus THEN {<<>>, PriorIndex} ELSE {<<>>}
  /\ heap = <<(<<>>)>>
  /\ chatHistory = 1
  /\ InitRequests
  /\ upserts = <<>>
  /\ returned = <<(<<>>)>>
  /\ nResets = 0
  /\ nextAfterReset = 0
  /\ passages = <<>>
  /\ ctxOut = NoCtx

(* ----------------------------- actions --------------------------------- *)
Issue(p, call) == trace' = [trace EXCEPT ![p] = Append(@, call)]

shared == <<corpus, index, heap, chatHistory, upserts, returned, nResets,
            nextAfterReset, passages, ctxOut>>

\* chatWithHistory(question) up to `await index.describeIndexStats()` (l.150-152)
\* Requests are numbered in the order they start.
chatWithHistory(p, q) ==
  /\ pc[p] = "idle"
  /\ \A r \in Reqs : r < p => pc[r] # "idle"
  /\ pc' = [pc EXCEPT ![p] = "stats"]
  /\ question' = [question EXCEPT ![p] = q]
  /\ Issue(p, "describeIndexStats")
  /\ nextAfterReset' = IF nResets > 0 /\ nextAfterReset = 0 THEN p ELSE nextAfterReset
  /\ UNCHANGED <<corpus, index, heap, chatHistory, upserts, returned, nResets,
                 passages, ctxOut>>
  /\ startGen' = [startGen EXCEPT ![p] = nResets]
  /\ UNCHANGED <<stats, rawDocs, chunks, i, vecStatus, histRef, docs, context,
                 prompt, answer, err, vecEntryCount, snapLen>>

\* variant: the retriever is created whatever the count is
StatsReply_noBootstrap(p) ==
  /\ pc[p] = "stats"
  /\ stats' = [stats EXCEPT ![p] = Len(index)]
  /\ pc' = [pc EXCEPT ![p] = "retriever"]
  /\ Issue(p, "fromExistingIndex")
  /\ UNCHANGED shared
  /\ UNCHANGED <<question, rawDocs, chunks, i, vecStatus, histRef, docs, context,
                 prompt, answer, err, vecEntryCount, startGen, snapLen>>

\* the stats arrive: `if ((stats.totalRecordCount || 0) === 0)` (l.152-161)
StatsReply(p) ==
  /\ pc[p] = "stats"
  /\ stats' = [stats EXCEPT ![p] = Len(index)]
  /\ IF Len(index) = 0
     THEN /\ pc' = [pc EXCEPT ![p] = "load"]
          /\ Issue(p, "loadDocuments")
     ELSE /\ pc' = [pc EXCEPT ![p] = "retriever"]
          /\ Issue(p, "fromExistingIndex")
  /\ UNCHANGED shared
  /\ UNCHANGED <<question, rawDocs, chunks, i, vecStatus, histRef, docs, context,
                 prompt, answer, err, vecEntryCount,
                 startGen, snapLen>>

\* loadDocuments returns the pages; splitDocuments is called (l.38-72, 156-157)
loadDocuments(p) ==
  /\ pc[p] = "load"
  /\ rawDocs' = [rawDocs EXCEPT ![p] = corpus]
  /\ pc' = [pc EXCEPT ![p] = "split"]
  /\ Issue(p, "splitDocuments")
  /\ UNCHANGED shared
  /\ UNCHANGED <<question, stats, chunks, i, vecStatus, histRef, docs, context,
                 prompt, answer, err, vecEntryCount,
                 startGen, snapLen>>

\* variant: vectorizeDocuments asks for the record count whatever its input
SplitReply_countFirst(p) ==
  /\ pc[p] = "split"
  /\ chunks' = [chunks EXCEPT ![p] = splitDocuments(rawDocs[p])]
  /\ vecEntryCount' = [vecEntryCount EXCEPT ![p] = Len(index)]
  /\ vecStatus' = vecStatus
  /\ pc' = [pc EXCEPT ![p] = "vecstats"]
  /\ Issue(p, "describeIndexStats")
  /\ UNCHANGED shared
  /\ UNCHANGED <<question, stats, rawDocs, i, histRef, docs, context, prompt,
                 answer, err, startGen, snapLen>>

\* splitDocuments returns the chunks; vectorizeDocuments(chunks) runs up to its
\* `await index.describeIndexStats()`, or returns at once on no chunks
\* (l.75-84, 158, 87-98)
SplitReply(p) ==
  /\ pc[p] = "split"
  /\ chunks' = [chunks EXCEPT ![p] = splitDocuments(rawDocs[p])]
  /\ vecEntryCount' = [vecEntryCount EXCEPT ![p] = Len(index)]
  /\ IF Len(chunks'[p]) = 0
     THEN /\ vecStatus' = [vecStatus EXCEPT ![p] = "No documents to vectorize."]
          /\ pc' = [pc EXCEPT ![p] = "retriever"]
          /\ Issue(p, "fromExistingIndex")
     ELSE /\ vecStatus' = vecStatus
          /\ pc' = [pc EXCEPT ![p] = "vecstats"]
          /\ Issue(p, "describeIndexStats")
  /\ UNCHANGED shared
  /\ UNCHANGED <<question, stats, rawDocs, i, histRef, docs, context, prompt,
                 answer, err, startGen, snapLen>>

\* variant: the record count is not looked at before writing
vectorizeDocuments_noSkip(p) ==
  /\ pc[p] = "vecstats"
  /\ i' = [i EXCEPT ![p] = 0]
  /\ chunks' = [chunks EXCEPT ![p] = SanitizeBatch(@, 0)]
  /\ pc' = [pc EXCEPT ![p] = "batch"]
  /\ Issue(p, "fromDocuments")
  /\ UNCHANGED vecStatus
  /\ UNCHANGED shared
  /\ UNCHANGED <<question, stats, rawDocs, histRef, docs, context, prompt,
                 answer, err, vecEntryCount,
                 startGen, snapLen>>

\* vectorizeDocuments after its stats arrive: skip, or sanitize the first batch
\* and call PineconeStore.fromDocuments (l.98-120)
vectorizeDocuments(p) ==
  /\ pc[p] = "vecstats"
  /\ IF Len(index) > 0
     THEN /\ vecStatus' = [vecStatus EXCEPT ![p] = "Index ready."]
          /\ pc' = [pc EXCEPT ![p] = "retriever"]
          /\ Issue(p, "fromExistingIndex")
          /\ UNCHANGED <<i, chunks>>
     ELSE /\ i' = [i EXCEPT ![p] = 0]
          /\ chunks' = [chunks EXCEPT ![p] = SanitizeBatch(@, 0)]
          /\ pc' = [pc EXCEPT ![p] = "batch"]
          /\ Issue(p, "fromDocuments")
          /\ UNCHANGED vecStatus
  /\ UNCHANGED shared
  /\ UNCHANGED <<question, stats, rawDocs, histRef, docs, context, prompt,
                 answer, err, vecEntryCount,
                 startGen, snapLen>>

\* a batch was embedded and upserted; the loop goes on to the next batch or
\* vectorizeDocuments returns and createRetriever is called (l.110-126, 161)
UpsertReply(p) ==
  /\ pc[p] = "batch"
  /\ LET last == BatchEnd(chunks[p], i[p])
         batch == SubSeq(chunks[p], i[p] + 1, last)
         next == i[p] + BatchSize
     IN /\ index' = index \o batch
        /\ upserts' = Append(upserts, [by |-> p, from |-> i[p], size |-> Len(batch),
                                       countBefore |-> Len(index)])
        /\ i' = [i EXCEPT ![p] = next]
        /\ IF next < Len(chunks[p])
           THEN /\ chunks' = [chunks EXCEPT ![p] = SanitizeBatch(@, next)]
                /\ Issue(p, "fromDocuments")
                /\ UNCHANGED <<pc, vecStatus>>
           ELSE /\ vecStatus' = [vecStatus EXCEPT ![p] = "Done."]
                /\ pc' = [pc EXCEPT ![p] = "retriever"]
                /\ Issue(p, "fromExistingIndex")
                /\ UNCHANGED chunks
  /\ UNCHANGED <<corpus, heap, chatHistory, returned, nResets, nextAfterReset,
                 passages, ctxOut>>
  /\ UNCHANGED <<question, stats, rawDocs, histRef, docs, context, prompt,
                 answer, err, vecEntryCount,
                 startGen, snapLen>>

\* variant: the rejection is caught inside the loop and the batch is skipped
UpsertFails_skipBatch(p) ==
  /\ pc[p] = "batch"
  /\ err' = [err EXCEPT ![p] = "fromDocuments"]
  /\ i' = [i EXCEPT ![p] = @ + BatchSize]
  /\ IF i'[p] < Len(chunks[p])
     THEN /\ chunks' = [chunks EXCEPT ![p] = SanitizeBatch(@, i'[p])]
          /\ Issue(p, "fromDocuments")
          /\ UNCHANGED <<pc, vecStatus>>
     ELSE /\ vecStatus' = [vecStatus EXCEPT ![p] = "Done."]
          /\ pc' = [pc EXCEPT ![p] = "retriever"]
          /\ Issue(p, "fromExistingIndex")
          /\ UNCHANGED chunks
  /\ UNCHANGED shared
  /\ UNCHANGED <<question, stats, rawDocs, histRef, docs, context, prompt,
                 answer, vecEntryCount,
                 startGen, snapLen>>

\* PineconeStore.fromDocuments rejects: nothing of the batch is written and the
\* rejection leaves vectorizeDocuments and chatWithHistory (l.120, 158)
UpsertFails(p) ==
  /\ pc[p] = "batch"
  /\ pc' = [pc EXCEPT ![p] = "failed"]
  /\ err' = [err EXCEPT ![p] = "fromDocuments"]
  /\ UNCHANGED shared
  /\ UNCHANGED <<question, stats, rawDocs, chunks, i, vecStatus, histRef, docs,
                 context, prompt, answer, trace, vecEntryCount,
                 startGen, snapLen>>

\* createRetriever resolves; the chains are built and generationChain.invoke
\* is called with chat_history: this.chatHistory (l.130-147, 161-306)
createRetriever(p) ==
  /\ pc[p] = "retriever"
  /\ histRef' = [histRef EXCEPT ![p] = chatHistory]
  /\ snapLen' = [snapLen EXCEPT ![p] = Len(heap[chatHistory])]
  /\ pc' = [pc EXCEPT ![p] = "retrieve"]
  /\ Issue(p, "retrieve")
  /\ UNCHANGED shared
  /\ UNCHANGED <<question, stats, rawDocs, chunks, i, vecStatus, docs, context,
                 prompt, answer, err, vecEntryCount,
                 startGen>>

\* the retriever answers: the context is formatted, the prompt is filled from
\* the array passed as chat_history, the model is called (l.282-301)
retrievalChain(p) ==
  /\ pc[p] = "retrieve"
  /\ docs' = [docs EXCEPT ![p] = QueryTopK(index, question[p])]
  /\ context' = [context EXCEPT ![p] = FormatContext(docs'[p])]
  /\ prompt' = [prompt EXCEPT ![p] =
                  FormatPrompt(context'[p], heap[histRef[p]], question[p])]
  /\ pc' = [pc EXCEPT ![p] = "llm"]
  /\ Issue(p, "generate")
  /\ UNCHANGED shared
  /\ UNCHANGED <<question, stats, rawDocs, chunks, i, vecStatus, histRef, answer,
                 err, vecEntryCount,
                 startGen, snapLen>>

\* variant: the pair is pushed onto the array that was handed to the chain
generationChain_staleArray(p, a) ==
  /\ pc[p] = "llm"
  /\ answer' = [answer EXCEPT ![p] = a]
  /\ heap' = [heap EXCEPT ![histRef[p]] = PushPair(@, question[p], a)]
  /\ returned' = [returned EXCEPT ![nResets + 1] = Append(@, p)]
  /\ pc' = [pc EXCEPT ![p] = "done"]
  /\ UNCHANGED <<corpus, index, chatHistory, upserts, nResets, nextAfterReset,
                 passages, ctxOut>>
  /\ UNCHANGED <<question, stats, rawDocs, chunks, i, vecStatus, histRef, docs,
                 context, prompt, err, trace, vecEntryCount,
                 startGen, snapLen>>

\* variant: only the answer is pushed
generationChain_answerOnly(p, a) ==
  /\ pc[p] = "llm"
  /\ answer' = [answer EXCEPT ![p] = a]
  /\ heap' = [heap EXCEPT ![chatHistory] = Append(@, AIMessage(a))]
  /\ returned' = [returned EXCEPT ![nResets + 1] = Append(@, p)]
  /\ pc' = [pc EXCEPT ![p] = "done"]
  /\ UNCHANGED <<corpus, index, chatHistory, upserts, nResets, nextAfterReset,
                 passages, ctxOut>>
  /\ UNCHANGED <<question, stats, rawDocs, chunks, i, vecStatus, histRef, docs,
                 context, prompt, err, trace, vecEntryCount,
                 startGen, snapLen>>

\* the model output is parsed; both turns are pushed onto this.chatHistory and
\* the answer is returned (l.303-311)
generationChain(p, a) ==
  /\ pc[p] = "llm"
  /\ answer' = [answer EXCEPT ![p] = a]
  /\ heap' = [heap EXCEPT ![chatHistory] = PushPair(@, question[p], a)]
  /\ returned' = [returned EXCEPT ![nResets + 1] = Append(@, p)]
  /\ pc' = [pc EXCEPT ![p] = "done"]
  /\ UNCHANGED <<corpus, index, chatHistory, upserts, nResets, nextAfterReset,
                 passages, ctxOut>>
  /\ UNCHANGED <<question, stats, rawDocs, chunks, i, vecStatus, histRef, docs,
                 context, prompt, err, trace, vecEntryCount,
                 startGen, snapLen>>

\* variant: the question is pushed before the model is called, so a failed
\* generation leaves it in the history
CallFails_questionPushed(p) ==
  /\ pc[p] \in {"stats", "load", "split", "vecstats", "retriever", "retrieve", "llm"}
  /\ pc' = [pc EXCEPT ![p] = "failed"]
  /\ err' = [err EXCEPT ![p] = pc[p]]
  /\ heap' = IF pc[p] = "llm"
             THEN [heap EXCEPT ![chatHistory] = Append(@, HumanMessage(question[p]))]
             ELSE heap
  /\ UNCHANGED <<corpus, index, chatHistory, upserts, returned, nResets,
                 nextAfterReset, passages, ctxOut>>
  /\ UNCHANGED <<question, stats, rawDocs, chunks, i, vecStatus, histRef, docs,
                 context, prompt, answer, trace, vecEntryCount,
                 startGen, snapLen>>

\* any other awaited call rejects: the rejection leaves chatWithHistory
CallFails(p) ==
  /\ pc[p] \in {"stats", "load", "split", "vecstats", "retriever", "retrieve", "llm"}
  /\ pc' = [pc EXCEPT ![p] = "failed"]
  /\ err' = [err EXCEPT ![p] = pc[p]]
  /\ UNCHANGED shared
  /\ UNCHANGED <<question, stats, rawDocs, chunks, i, vecStatus, histRef, docs,
                 context, prompt, answer, trace, vecEntryCount,
                 startGen, snapLen>>

\* variant: the reset also deletes the records of the index
resetChatHistory_wipeIndex ==
  /\ nResets < MaxResets
  /\ heap' = Append(heap, <<>>)
  /\ chatHistory' = Len(heap) + 1
  /\ nResets' = nResets + 1
  /\ returned' = Append(returned, <<>>)
  /\ nextAfterReset' = 0
  /\ index' = <<>>
  /\ UNCHANGED <<corpus, upserts, passages, ctxOut>>
  /\ UNCHANGED reqVars

\* variant: the new array starts as a copy of the old one
resetChatHistory_keep ==
  /\ nResets < MaxResets
  /\ heap' = Append(heap, heap[chatHistory])
  /\ chatHistory' = Len(heap) + 1
  /\ nResets' = nResets + 1
  /\ returned' = Append(returned, <<>>)
  /\ nextAfterReset' = 0
  /\ UNCHANGED <<corpus, index, upserts, passages, ctxOut>>
  /\ UNCHANGED reqVars

\* resetChatHistory: this.chatHistory = [] (l.315-319)
resetChatHistory ==
  /\ nResets < MaxResets
  /\ heap' = Append(heap, <<>>)
  /\ chatHistory' = Len(heap) + 1
  /\ nResets' = nResets + 1
  /\ returned' = Append(returned, <<>>)
  /\ nextAfterReset' = 0
  /\ UNCHANGED <<corpus, index, upserts, passages, ctxOut>>
  /\ UNCHANGED reqVars

Next ==
  \/ \E p \in Reqs, q \in Questions : chatWithHistory(p, q)
  \/ \E p \in Reqs : StatsReply(p)
  \/ \E p \in Reqs : loadDocuments(p)
  \/ \E p \in Reqs : SplitReply(p)
  \/ \E p \in Reqs : vectorizeDocuments(p)
  \/ \E p \in Reqs : UpsertReply(p)
  \/ \E p \in Reqs : UpsertFails(p)
  \/ \E p \in Reqs : createRetriever(p)
  \/ \E p \in Reqs : retrievalChain(p)
  \/ \E p \in Reqs, a \in Answers : generationChain(p, a)
  \/ \E p \in Reqs : CallFails(p)
  \/ resetChatHistory

Spec == Init /\ [][Next]_vars

(* ------------------- the context formatter alone ----------------------- *)
\* Passage texts around the length limit, with and without blank edges.
TextPool ==
  { <<>>, Sp(3), X(30), X(31), Sp(1) \o X(30) \o Sp(1),
    Sp(2) \o X(31) \o <<"\n">>, X(16) \o Sp(1) \o X(16) }

PassageLists ==
  UNION {[1..n -> {Doc(t, 0, Undef, Undef) : t \in TextPool}] : n \in 0..MaxDocs}

InitContext ==
  /\ corpus = EmptyCorpus
  /\ index = <<>>
  /\ heap = <<(<<>>)>>
  /\ chatHistory = 1
  /\ InitRequests
  /\ upserts = <<>>
  /\ returned = <<(<<>>)>>
  /\ nResets = 0
  /\ nextAfterReset = 0
  /\ passages \in PassageLists
  /\ ctxOut = NoCtx

\* the last step of retrievalChain applied to a list of retrieved documents
FormatStep ==
  /\ ctxOut = NoCtx
  /\ ctxOut' = FormatContext(passages)
  /\ UNCHANGED <<corpus, index, heap, chatHistory, reqVars, upserts, returned,
                 nResets, nextAfterReset, passages>>

NextContext == FormatStep

SpecContext == InitContext /\ [][NextContext]_vars

(* --------- vectorizeDocuments called on any input and any index --------- *)
\* vectorizeDocuments is a public method: each caller hands it the chunks of a
\* folder, the index being empty or already populated.
InitPopulator ==
  /\ corpus \in {EmptyCorpus, SmallCorpus, BigCorpus, FullCorpus}
  /\ index \in {<<>>, PriorIndex}
  /\ heap = <<(<<>>)>>
  /\ chatHistory = 1
  /\ pc = [p \in Reqs |-> "split"]
  /\ question = [p \in Reqs |-> "none"]
  /\ stats = [p \in Reqs |-> -1]
  /\ rawDocs = [p \in Reqs |-> corpus]
  /\ chunks = [p \in Reqs |-> <<>>]
  /\ i = [p \in Reqs |-> 0]
  /\ vecStatus = [p \in Reqs |-> "none"]
  /\ histRef = [p \in Reqs |-> -1]
  /\ docs = [p \in Reqs |-> <<>>]
  /\ context = [p \in Reqs |-> <<>>]
  /\ prompt = [p \in Reqs |-> <<>>]
  /\ answer = [p \in Reqs |-> "none"]
  /\ err = [p \in Reqs |-> "none"]
  /\ trace = [p \in Reqs |-> <<>>]
  /\ vecEntryCount = [p \in Reqs |-> -1]
  /\ startGen = [p \in Reqs |-> -1]
  /\ snapLen = [p \in Reqs |-> -1]
  /\ upserts = <<>>
  /\ returned = <<(<<>>)>>
  /\ nResets = 0
  /\ nextAfterReset = 0
  /\ passages = <<>>
  /\ ctxOut = NoCtx

\* the call runs until it returns a status or a store call rejects
PopulatorFails(p) == pc[p] = "vecstats" /\ CallFails(p)

NextPopulator ==
  \/ \E p \in Reqs : SplitReply(p)
  \/ \E p \in Reqs : vectorizeDocuments(p)
  \/ \E p \in Reqs : UpsertReply(p)
  \/ \E p \in Reqs : UpsertFails(p)
  \/ \E p \in Reqs : PopulatorFails(p)

SpecPopulator == InitPopulator /\ [][NextPopulator]_vars

(* ----------------------------- properties ------------------------------ *)
History == heap[chatHistory]
Done(p) == pc[p] = "done"
\* the requests that returned since the last reset, in order of return
completed == returned[nResets + 1]
UpsertsBy(p) == {n \in 1..Len(upserts) : upserts[n].by = p}
Called(p, call) == \E n \in 1..Len(trace[p]) : trace[p][n] = call
\* the messages of a prompt between the system message and the final question
PriorHistory(pr) == SubSeq(pr, 2, Len(pr) - 1)
IsPrefix(s, t) == Len(s) <= Len(t) /\ \A n \in 1..Len(s) : s[n] = t[n]

\* C1: with no reset so far, after N requests have returned the history has
\* exactly 2N messages, and its k-th pair is the question of the k-th request
\* to return, as a human message, followed by the answer returned for it.
C1_HistoryOrdering ==
  nResets = 0 =>
    /\ Len(completed) = Cardinality({p \in Reqs : Done(p)})
    /\ Len(History) = 2 * Len(completed)
    /\ \A k \in 1..Len(completed) :
         /\ History[2 * k - 1].role = "human"
         /\ History[2 * k - 1].content = question[completed[k]]
         /\ History[2 * k].role = "ai"
         /\ History[2 * k].content = answer[completed[k]]

C1_Witness ==
  /\ nResets = 0
  /\ Len(History) = 4
  /\ \A p \in Reqs : Done(p)
  /\ question[1] # question[2]
  /\ answer[1] # answer[2]

\* C2: a step of a request that is not its successful return (so every step
\* of a request that fails, the failing one included) leaves the chat history
\* untouched, and the history never holds half a pair.
C2_FailureLeavesHistory ==
  [][ /\ \A p \in Reqs :
           (pc'[p] # pc[p] /\ pc'[p] # "done") =>
              (heap' = heap /\ chatHistory' = chatHistory)
      /\ Len(heap'[chatHistory']) % 2 = 0 ]_vars

C2_Witness ==
  \E p \in Reqs : /\ pc[p] = "failed"
                  /\ err[p] = "llm"
                  /\ Len(History) = 2

\* C3: a vectorizeDocuments call entered while the index holds records writes
\* nothing and returns the already-populated status, and a request whose
\* first stats showed a populated index never calls vectorizeDocuments and
\* writes nothing.
C3_PopulationIdempotent ==
  \A p \in Reqs :
    /\ vecEntryCount[p] > 0 =>
         /\ UpsertsBy(p) = {}
         /\ ~Called(p, "fromDocuments")
         /\ \/ pc[p] = "vecstats"
            \/ err[p] = "vecstats"
            \/ vecStatus[p] = "Index ready."
    /\ stats[p] > 0 =>
         /\ UpsertsBy(p) = {}
         /\ vecEntryCount[p] = -1
         /\ ~Called(p, "fromDocuments")

C3_Witness ==
  \E p \in Reqs : /\ vecEntryCount[p] > 0
                  /\ vecStatus[p] = "Index ready."
                  /\ Len(upserts) > 0

\* C4: under every interleaving of requests that start on an empty index,
\* records are never removed, one request at most writes, no population run
\* starts writing into an index that already holds records, and no batch of
\* the corpus is written twice.
C4_FirstWriteWins ==
  [][ /\ IsPrefix(index, index')
      /\ Cardinality({upserts'[n].by : n \in 1..Len(upserts')}) <= 1
      /\ \A n \in 1..Len(upserts') :
           upserts'[n].from = 0 => upserts'[n].countBefore = 0
      /\ \A m, n \in 1..Len(upserts') :
           m # n => upserts'[m].from # upserts'[n].from ]_vars

\* the pairs of the requests rs, as they are pushed
PairsOf(rs) ==
  [n \in 1..(2 * Len(rs)) |->
     IF n % 2 = 1 THEN HumanMessage(question[rs[(n + 1) \div 2]])
                  ELSE AIMessage(answer[rs[n \div 2]])]

\* C5 as stated: after a reset the history is empty, and the first request
\* started after it fills its prompt with no prior history at all.
C5_ResetThenEmptyPrompt ==
  /\ (nResets > 0 /\ completed = <<>>) => Len(History) = 0
  /\ \A p \in Reqs :
       (p = nextAfterReset /\ prompt[p] # <<>>) => PriorHistory(prompt[p]) = <<>>

\* C5 amended: a reset leaves the history empty, and a request started after
\* a reset fills its prompt from an array created by that reset or a later
\* one, with exactly the pairs of the requests that had returned into that
\* array (none, when none had): no message from before the reset reaches it.
C5_ResetThenFreshPrompt ==
  [][ /\ nResets' = nResets + 1 => Len(heap'[chatHistory']) = 0
      /\ \A p \in Reqs :
           (startGen[p] >= 1 /\ prompt[p] = <<>> /\ prompt'[p] # <<>>) =>
              /\ histRef[p] > startGen[p]
              /\ PriorHistory(prompt'[p]) = PairsOf(returned[histRef[p]])
              /\ histRef[p] = chatHistory =>
                   PriorHistory(prompt'[p]) = PairsOf(completed) ]_vars

C5_Witness ==
  \E p \in Reqs : /\ p = nextAfterReset
                  /\ Len(prompt[p]) = 2
                  /\ Len(heap[1]) = 2
                  /\ chatHistory = 2

RECURSIVE TotalLen(_)
TotalLen(arrays) ==
  IF arrays = <<>> THEN 0 ELSE Len(Head(arrays)) + TotalLen(Tail(arrays))

\* C6: whatever the interleaving, every history array is a sequence of whole
\* pairs, each the question of a returned request followed by the answer
\* generated for that request, and no returned request's pair is missing.
C6_AppendsNotInterleaved ==
  /\ \A a \in 1..Len(heap) :
       /\ Len(heap[a]) % 2 = 0
       /\ \A k \in 1..(Len(heap[a]) \div 2) :
            \E p \in Reqs : /\ Done(p)
                            /\ heap[a][2 * k - 1] = HumanMessage(question[p])
                            /\ heap[a][2 * k] = AIMessage(answer[p])
  /\ TotalLen(heap) = 2 * Cardinality({p \in Reqs : Done(p)})

C6_Witness ==
  /\ completed = <<2, 1>>
  /\ Len(History) = 4
  /\ question[1] # question[2]
  /\ answer[1] # answer[2]

\* C7: a request whose batch upsert was rejected has failed there: it wrote
\* the batches before the rejected one and nothing after, vectorizeDocuments
\* returned no status, and neither the retriever nor the model was called.
C7_BatchFailureAborts ==
  \A p \in Reqs :
    err[p] = "fromDocuments" =>
      /\ pc[p] = "failed"
      /\ vecStatus[p] = "none"
      /\ Cardinality(UpsertsBy(p)) * BatchSize = i[p]
      /\ \A n \in UpsertsBy(p) : upserts[n].from < i[p]
      /\ ~Called(p, "fromExistingIndex")
      /\ ~Called(p, "retrieve")
      /\ ~Called(p, "generate")
      /\ prompt[p] = <<>>
      /\ answer[p] = "none"

C7_Witness ==
  \E p \in Reqs : /\ err[p] = "fromDocuments"
                  /\ i[p] = BatchSize
                  /\ Len(chunks[p]) > BatchSize
                  /\ Len(index) >= BatchSize

\* the context built passage by passage: a passage of more than MinContextLen
\* characters (blank edges not counted) is added after a blank line
Glue(acc, t) == IF Len(acc) = 0 THEN t ELSE acc \o BlankLine \o t
RECURSIVE ContextUpTo(_, _)
ContextUpTo(ps, n) ==
  IF n = 0 THEN <<>>
  ELSE LET t == Trim(ps[n].pageContent)
       IN IF Len(t) <= MinContextLen THEN ContextUpTo(ps, n - 1)
          ELSE Glue(ContextUpTo(ps, n - 1), t)

\* C8: the context holds no passage of 30 characters or less; it is the
\* remaining passages (blank edges trimmed) in retrieval order with one blank
\* line between neighbours and nothing else, and it is empty when every
\* passage is that short.
C8_ContextFiltering ==
  ctxOut # NoCtx =>
    /\ ctxOut = ContextUpTo(passages, Len(passages))
    /\ (\A n \in 1..Len(passages) : Len(passages[n].pageContent) <= MinContextLen)
         => ctxOut = <<>>

C8_Witness ==
  /\ Len(passages) = 3
  /\ passages[1].pageContent = X(31)
  /\ passages[2].pageContent = X(30)
  /\ passages[3].pageContent = Sp(2) \o X(31) \o <<"\n">>
  /\ ctxOut = X(31) \o BlankLine \o X(31)

\* C10: no record of the index carries a Date object in any metadata field.
C10_NoRawDate ==
  \A n \in 1..Len(index) :
    /\ index[n].metadata.date.kind # "Date"
    /\ index[n].metadata.created.kind # "Date"

\* position of the first occurrence of a call in a request's trace (0: none)
FirstCall(p, call) ==
  IF Called(p, call)
  THEN CHOOSE n \in 1..Len(trace[p]) :
         trace[p][n] = call /\ \A m \in 1..(n - 1) : trace[p][m] # call
  ELSE 0

\* C11: a request's first external call is the count query; when it read 0,
\* the retriever is created only after loadDocuments, splitDocuments and
\* vectorizeDocuments were called in that order and vectorizeDocuments
\* returned, every write of the request coming before; when it read more than
\* 0, none of the three is ever called by that request.
C11_LazyBootstrapOrder ==
  \A p \in Reqs :
    /\ trace[p] # <<>> => trace[p][1] = "describeIndexStats"
    /\ Called(p, "retrieve") =>
         FirstCall(p, "fromExistingIndex") = FirstCall(p, "retrieve") - 1
    /\ (stats[p] = 0 /\ Called(p, "fromExistingIndex")) =>
         /\ trace[p][2] = "loadDocuments"
         /\ trace[p][3] = "splitDocuments"
         /\ rawDocs[p] = corpus
         /\ vecEntryCount[p] >= 0
         /\ vecStatus[p] # "none"
         /\ \A n \in 1..Len(trace[p]) :
              trace[p][n] \in {"loadDocuments", "splitDocuments", "fromDocuments"}
                => n < FirstCall(p, "fromExistingIndex")
    /\ stats[p] > 0 =>
         /\ ~Called(p, "loadDocuments")
         /\ ~Called(p, "splitDocuments")
         /\ ~Called(p, "fromDocuments")
         /\ vecStatus[p] = "none"

C11_Witness ==
  \E p, r \in Reqs : /\ stats[p] = 0
                     /\ vecStatus[p] = "Done."
                     /\ Done(p)
                     /\ stats[r] > 0
                     /\ Done(r)

\* the batches written by a request, in the order they were written
UpsertsSeq(p) ==
  LET ByP(u) == u.by = p
  IN SelectSeq(upserts, ByP)
\* ceil(n / BatchSize)
NumBatches(n) == (n + BatchSize - 1) \div BatchSize

\* the shape of the runs so far: the k-th batch written by a request starts at
\* chunk (k-1)*100 and holds the next 100 chunks or all that remain, and the
\* run has returned the completed status exactly when ceil(n/100) batches
\* were written
BatchesInOrder ==
  \A p \in Reqs :
    LET ups == UpsertsSeq(p)
        n == Len(chunks[p])
    IN /\ \A k \in 1..Len(ups) :
            /\ ups[k].from = (k - 1) * BatchSize
            /\ ups[k].size = Min(BatchSize, n - ups[k].from)
            /\ ups[k].size >= 1
            /\ ups[k].size <= BatchSize
       /\ Len(ups) <= NumBatches(n)
       /\ vecStatus[p] = "Done." <=> (n > 0 /\ Len(ups) = NumBatches(n))
       /\ vecStatus[p] = "Done." => vecEntryCount[p] = 0

\* C12: a run over n chunks that found the index empty and met no failure
\* writes ceil(n/100) batches, one upsert at a time in input order, each of at
\* most 100 chunks; each upsert adds to the index exactly the chunks of its
\* slice, so the batches together are the input sequence, every chunk once;
\* the run then returns the completed status.
C12_BatchPartition ==
  [][ /\ BatchesInOrder'
      /\ \A p \in Reqs :
           (pc[p] = "batch" /\ upserts' # upserts /\ i'[p] # i[p]) =>
              /\ Len(upserts') = Len(upserts) + 1
              /\ index' = index \o SubSeq(chunks[p], i[p] + 1,
                                          Min(i[p] + BatchSize, Len(chunks[p])))
              /\ i'[p] = i[p] + BatchSize
              /\ (i'[p] >= Len(chunks[p])) = (vecStatus'[p] = "Done.") ]_vars

C12_Witness ==
  \E p \in Reqs : /\ vecStatus[p] = "Done."
                  /\ Len(chunks[p]) = BigPages
                  /\ Len(UpsertsSeq(p)) = 2
                  /\ UpsertsSeq(p)[2].size = BigPages - BatchSize

Statuses == {"No documents to vectorize.", "Index ready.", "Done."}

\* C13 as stated: a call that returned a status has queried the record count
\* first, and has returned the already-populated status whenever the index
\* held records, whatever its input.
C13_CountFirst ==
  \A p \in Reqs :
    vecStatus[p] # "none" =>
      /\ vecStatus[p] \in Statuses
      /\ Called(p, "describeIndexStats")
      /\ vecEntryCount[p] > 0 => vecStatus[p] = "Index ready."

\* C13 amended: the call returns one of three statuses. With no chunks it
\* returns the empty-input status at once, without querying the store,
\* whatever the record count is. Otherwise it first queries the count; on a
\* count above 0 it writes nothing and returns the already-populated status;
\* on a count of 0 it starts writing, and returns the completed status when
\* all chunks were written.
C13_StatusByInputThenCount ==
  [][ \A p \in Reqs :
        /\ (pc[p] = "split" /\ pc'[p] \notin {"split", "failed"}) =>
              /\ index' = index
              /\ IF Len(chunks'[p]) = 0
                 THEN /\ vecStatus'[p] = "No documents to vectorize."
                      /\ ~\E n \in 1..Len(trace'[p]) :
                            trace'[p][n] = "describeIndexStats"
                 ELSE /\ vecStatus'[p] = "none"
                      /\ trace'[p][Len(trace'[p])] = "describeIndexStats"
        /\ (pc[p] = "vecstats" /\ pc'[p] \notin {"vecstats", "failed"}) =>
              /\ index' = index
              /\ Len(chunks[p]) > 0
              /\ IF Len(index) > 0
                 THEN vecStatus'[p] = "Index ready."
                 ELSE vecStatus'[p] = "none" /\ pc'[p] = "batch"
        /\ (pc[p] = "batch" /\ vecStatus'[p] # "none") =>
              /\ vecStatus'[p] = "Done."
              /\ Cardinality({n \in 1..Len(upserts') : upserts'[n].by = p})
                   = NumBatches(Len(chunks[p]))
        /\ vecStatus[p] # "none" => vecStatus'[p] = vecStatus[p]
        /\ vecStatus'[p] \in Statuses \cup {"none"} ]_vars

C13_Witness ==
  \E p, r \in Reqs : /\ vecStatus[p] = "No documents to vectorize."
                     /\ Len(chunks[p]) = 0
                     /\ Len(index) > 0
                     /\ ~Called(p, "describeIndexStats")
                     /\ pc[r] = "split"

\* C14: the prior history in a request's prompt is the history as it was when
\* the request handed it to the chain: what other requests appended, or a
\* reset, while the request waited for retrieval or generation is not in it.
C14_SnapshotImmutable ==
  \A p \in Reqs :
    prompt[p] # <<>> =>
      PriorHistory(prompt[p]) = SubSeq(heap[histRef[p]], 1, snapLen[p])

\* C15: the model input built for a request is one system message with the
\* directive and the context formatted from the retrieved passages, then every
\* message of the history array as stored, in order, then the request's
\* question as one human message, and nothing else; once built it does not
\* change.
C15_PromptOrder ==
  [][ \A p \in Reqs :
        /\ (prompt[p] = <<>> /\ prompt'[p] # <<>>) =>
              LET h == heap[histRef[p]]
                  pr == prompt'[p]
              IN /\ Len(pr) = Len(h) + 2
                 /\ pr[1].role = "system"
                 /\ pr[1].content = "directive"
                 /\ pr[1].context = FormatContext(docs'[p])
                 /\ \A k \in 1..Len(h) : pr[k + 1] = h[k]
                 /\ pr[Len(pr)] = HumanMessage(question[p])
                 /\ \A k \in 2..Len(pr) : pr[k].role # "system"
        /\ prompt[p] # <<>> => prompt'[p] = prompt[p] ]_vars

C15_Witness ==
  \E p \in Reqs : /\ Len(prompt[p]) = 4
                  /\ Len(prompt[p][1].context) > 0
                  /\ prompt[p][2].role = "human"
                  /\ prompt[p][3].role = "ai"
                  /\ prompt[p][4] = HumanMessage(question[p])
                  /\ prompt[p][2].content # question[p]

\* every chunk of the documents folder has a record in the index
IndexComplete ==
  LET cs == splitDocuments(corpus)
  IN \A n \in 1..Len(cs) :
       \E m \in 1..Len(index) :
          /\ index[m].pageContent = cs[n].pageContent
          /\ index[m].metadata.loc = cs[n].metadata.loc
\* population runs that wrote some batches and were aborted by a rejected one
AbortedRuns == {r \in Reqs : err[r] = "fromDocuments" /\ UpsertsBy(r) # {}}

\* C16: once a population run was aborted after writing some batches, every
\* request that retrieves does so from an index holding every chunk of the
\* corpus: the population has been completed before the retrieval.
C16_RetryCompletes ==
  [][ \A p \in Reqs :
        (AbortedRuns # {} /\ pc[p] = "retrieve" /\ pc'[p] = "llm")
          => IndexComplete ]_vars

\* C17: in every reachable state the history is exactly the pairs (question
\* as a human message, answer returned) of the requests that returned since
\* the last reset, in the order they returned, so its length is even; a
\* request started before a reset that returns after it has its whole pair in
\* the history of after the reset.
C17_HistorySinceReset ==
  /\ History = PairsOf(completed)
  /\ Len(History) % 2 = 0
  /\ \A p \in Reqs :
       (Done(p) /\ \E k \in 1..Len(completed) : completed[k] = p) =>
          \E k \in 1..Len(completed) :
             /\ History[2 * k - 1] = HumanMessage(question[p])
             /\ History[2 * k] = AIMessage(answer[p])

C17_Witness ==
  \E p, r \in Reqs : /\ nResets = 1
                     /\ startGen[p] = 0
                     /\ histRef[p] = 1
                     /\ startGen[r] = 0
                     /\ returned = << <<r>>, <<p>> >>
                     /\ History = PairsOf(<<p>>)
                     /\ heap[1] = PairsOf(<<r>>)

\* C18: a reset changes the session history and nothing else: the index keeps
\* its records, no store call or ingestion step is made and no request moves;
\* and no step of a request that found the index populated changes the index.
C18_ResetFrame ==
  [][ /\ nResets' # nResets =>
           /\ index' = index
           /\ upserts' = upserts
           /\ corpus' = corpus
           /\ trace' = trace
           /\ pc' = pc
           /\ chunks' = chunks
           /\ Len(heap'[chatHistory']) = 0
           /\ \A a \in 1..Len(heap) : heap'[a] = heap[a]
      /\ \A p \in Reqs :
           (stats'[p] > 0 /\ pc'[p] # pc[p]) =>
              /\ index' = index
              /\ upserts' = upserts
              /\ trace'[p][Len(trace'[p])] \notin
                   {"loadDocuments", "splitDocuments", "fromDocuments"} ]_vars

C18_Witness ==
  \E p \in Reqs : /\ nResets = 1
                  /\ index = PriorIndex
                  /\ stats[p] > 0
                  /\ startGen[p] = 0
                  /\ Done(p)
                  /\ History = PairsOf(<<p>>)

====
